---------------------------- MODULE Spec2Model ----------------------------
(***************************************************************************)
(* Model of matcher.go (package mux): the path-template compiler           *)
(* newPathWithVarsMatcher, the matchers' Match and Rank methods, the       *)
(* scheme matcher and the sortable Matchers collection.                    *)
(*                                                                         *)
(* A Go string is modelled as a sequence of one-character strings.  Go     *)
(* indices are 0-based and are kept 0-based in the state (i, firstIndex,   *)
(* lastIndex); the character path[i] of the source is path[i + 1] here.    *)
(***************************************************************************)
EXTENDS Integers, Sequences, FiniteSets, TLC

VARIABLES
    tmpl,      \* the argument of newPathWithVarsMatcher / the literal of pathMatcher
    path,      \* the local `path`, rewritten by the scan
    i,         \* the loop index
    vars,      \* the local `vars` (type variable)
    pc,        \* position of the constructor / matcher
    ev,        \* which branch the last loop iteration took
    ext,       \* the token extraction made by the last iteration (history)
    rem,       \* number of characters of the template not scanned yet (history)
    nsub,      \* number of substitutions made so far (history)
    scanned,   \* what the last iteration looked at (history): "template", a character
               \* of the template scanned for the first time, or "fragment", text
               \* of an inserted fragment up to the terminator already scanned
    regex,     \* the compiled pattern held by pathWithVarsMatcher
    req,       \* r.URL.Path / r.URL.Scheme of the request being matched
    result,    \* what Match returned
    schemes,   \* the arguments of newSchemeMatcher
    sm,        \* the schemeMatcher map (its key set)
    orig,      \* the Matchers collection as handed to the sort
    ms         \* the Matchers collection being sorted

allVars == <<tmpl, path, i, vars, pc, ev, ext, rem, nsub, scanned, regex, req,
             result, schemes, sm, orig, ms>>

---------------------------------------------------------------------------
(* Bounds of the model.                                                    *)

\* templates of the scan are concatenations of at most MaxPieces pieces
MaxPieces == 5

\* templates handed to the matcher are "/" followed by at most MaxMatchPieces pieces
MaxMatchPieces == 3

\* request paths are concatenations of at most MaxRequestPieces pieces
MaxRequestPieces == 3

\* newSchemeMatcher is given at most MaxSchemes schemes
MaxSchemes == 2

\* a Matchers collection holds at most MaxMatchers matchers
MaxMatchers == 4

---------------------------------------------------------------------------
(* Strings.                                                                *)

NumberKeyword == <<":", "n", "u", "m", "b", "e", "r">>

StringKeyword == <<":", "s", "t", "r", "i", "n", "g">>

NumberFragment == <<"(", "[", "0", "-", "9", "]", "{", "1", ",", "}", ")">>

StringFragment ==
    <<"(", "[", "a", "-", "z", "A", "-", "Z", "]", "{", "1", ",", "}", ")">>

\* The pieces templates are built from: the separator, a literal letter, a
\* lone trigger and the two keywords.
TemplatePieces ==
    { <<"/">>, <<"a">>, <<":">>, NumberKeyword, StringKeyword }

RECURSIVE Concats(_, _)
Concats(pieces, n) ==
    IF n = 0 THEN { <<>> }
    ELSE LET S == Concats(pieces, n - 1)
         IN  S \cup { s \o p : s \in S, p \in pieces }

Templates == Concats(TemplatePieces, MaxPieces)

\* Templates of the matcher: rooted paths, whose pieces also include a
\* character that is an operator of the pattern syntax.
MatchTemplates ==
    { <<"/">> \o t : t \in Concats(TemplatePieces \cup { <<"+">> }, MaxMatchPieces) }

\* Request paths: separators, a letter, a digit and the character "+".
RequestPieces == { <<"/">>, <<"a">>, <<"4">>, <<"+">> }

Requests == Concats(RequestPieces, MaxRequestPieces)

\* Go's s[a:b]: defined when 0 <= a <= b <= len(s), a run-time panic otherwise.
ValidSlice(s, a, b) == 0 <= a /\ a <= b /\ b <= Len(s)

Slice(s, a, b) == SubSeq(s, a + 1, b)

---------------------------------------------------------------------------
(* newPathWithVarsMatcher: the scan.                                       *)

ZeroVariable == [firstIndex |-> 0, lastIndex |-> 0]

NoExt == [at |-> 0, first |-> 0, last |-> 0, seg |-> <<>>, before |-> <<>>]

\* the loop condition i <= len(path)-1, read anew on every iteration
InLoop(p, idx) == idx <= Len(p) - 1

\* (variant: the index is not advanced)
NextIndexStuck(idx) == idx

\* the loop's post statement i++
NextIndex(idx) == idx + 1

\* (variant: the guard does not ask for a recorded start)
IsVarEndAnyStart(p, idx, v, char) == char = "/" \/ idx = Len(p) - 1

\* the guard of the else-if: a start is recorded and the character ends a token
IsVarEnd(p, idx, v, char) ==
    v.firstIndex # 0 /\ (char = "/" \/ idx = Len(p) - 1)

\* (variant: the end is not advanced at the last index)
EndIndexNotAdvanced(p, idx) == idx

\* (variant: the end is exclusive everywhere and advanced once more at the last index)
EndIndexPastEnd(p, idx) == IF idx = Len(p) - 1 THEN idx + 2 ELSE idx + 1

\* vars.lastIndex = i, advanced by one when it is the last index of path
EndIndex(p, idx) == IF idx = Len(p) - 1 THEN idx + 1 ELSE idx

\* path[:vars.firstIndex] + fragment + path[vars.lastIndex:]
Substitute(p, v, fragment) ==
    Slice(p, 0, v.firstIndex) \o fragment \o Slice(p, v.lastIndex, Len(p))

\* (variant: a substitution does not reset vars)
AfterSubstitutionKept(v) == v

\* (variant: vars is reset after every extracted token)
AfterOtherTokenReset(v) == ZeroVariable

\* what the two substitution branches leave in vars
AfterSubstitution(v) == ZeroVariable

\* what is left in vars when the token is no keyword: no branch assigns it
AfterOtherToken(v) == v

\* One iteration of the loop body on (path, i, vars).  The result carries the
\* new path and vars, the branch taken (ev) and, when a token was extracted,
\* the indices and the token (ext).  ev = "panic" is a slice out of range.
ScanIter(p, idx, v) ==
    LET char == p[idx + 1]
    IN  IF char = ":"
        THEN [path |-> p, vars |-> [v EXCEPT !.firstIndex = idx],
              ev |-> "colon", ext |-> NoExt]
        ELSE IF IsVarEnd(p, idx, v, char)
        THEN LET w == [v EXCEPT !.lastIndex = EndIndex(p, idx)]
                 x == [at |-> idx, first |-> w.firstIndex, last |-> w.lastIndex,
                       seg |-> <<>>, before |-> p]
             IN  IF ~ValidSlice(p, w.firstIndex, w.lastIndex)
                 THEN [path |-> p, vars |-> w, ev |-> "panic", ext |-> x]
                 ELSE LET seg == Slice(p, w.firstIndex, w.lastIndex)
                          y   == [x EXCEPT !.seg = seg]
                      IN  IF seg = NumberKeyword
                          THEN [path |-> Substitute(p, w, NumberFragment),
                                vars |-> AfterSubstitution(w),
                                ev |-> "number", ext |-> y]
                          ELSE IF seg = StringKeyword
                          THEN [path |-> Substitute(p, w, StringFragment),
                                vars |-> AfterSubstitution(w),
                                ev |-> "string", ext |-> y]
                          ELSE [path |-> p, vars |-> AfterOtherToken(w),
                                ev |-> "other", ext |-> y]
        ELSE [path |-> p, vars |-> v, ev |-> "plain", ext |-> NoExt]

TokenEvents == { "number", "string", "other" }

SubstEvents == { "number", "string" }

\* The whole loop as a function of its state: the final path, or <<"panic">>
\* tagged, when a slice went out of range.
RECURSIVE RunScan(_, _, _)
RunScan(p, idx, v) ==
    IF ~InLoop(p, idx) THEN [ok |-> TRUE, path |-> p]
    ELSE LET r == ScanIter(p, idx, v)
         IN  IF r.ev = "panic" THEN [ok |-> FALSE, path |-> p]
             ELSE RunScan(r.path, NextIndex(idx), r.vars)

---------------------------------------------------------------------------
(* regexp.MustCompile and Regexp.MatchString, for the patterns the model   *)
(* can build: literal characters, the operator "+", the anchors, and the   *)
(* two groups the scan inserts.  The template alphabet holds none of       *)
(* ( ) [ ] { } , so these occur in a pattern only as part of a fragment.   *)

Digits == { "0", "1", "2", "3", "4", "5", "6", "7", "8", "9" }

LowerLetters ==
    { "a", "b", "c", "d", "e", "f", "g", "h", "i", "j", "k", "l", "m",
      "n", "o", "p", "q", "r", "s", "t", "u", "v", "w", "x", "y", "z" }

UpperLetters ==
    { "A", "B", "C", "D", "E", "F", "G", "H", "I", "J", "K", "L", "M",
      "N", "O", "P", "Q", "R", "S", "T", "U", "V", "W", "X", "Y", "Z" }

Atom(kind, ch, plus) == [kind |-> kind, ch |-> ch, plus |-> plus]

HasPrefixAt(s, p, prefix) ==
    /\ p + Len(prefix) - 1 <= Len(s)
    /\ SubSeq(s, p, p + Len(prefix) - 1) = prefix

\* The parse of pattern s from position p.  acc holds the atoms parsed so far;
\* lastRep says that the previous token was a repetition operator, which a
\* second one may not follow ("invalid nested repetition operator").
RECURSIVE ParseFrom(_, _, _, _)
ParseFrom(s, p, acc, lastRep) ==
    IF p > Len(s) THEN [ok |-> TRUE, atoms |-> acc]
    ELSE LET c == s[p]
         IN  CASE c = "^" ->
                    ParseFrom(s, p + 1, Append(acc, Atom("bol", "", FALSE)), FALSE)
               [] c = "$" ->
                    ParseFrom(s, p + 1, Append(acc, Atom("eol", "", FALSE)), FALSE)
               [] c = "+" ->
                    IF lastRep \/ acc = <<>>
                    THEN [ok |-> FALSE, atoms |-> <<>>]
                    ELSE ParseFrom(s, p + 1,
                                   [acc EXCEPT ![Len(acc)].plus = TRUE], TRUE)
               [] c = "(" ->
                    IF HasPrefixAt(s, p, NumberFragment)
                    THEN ParseFrom(s, p + Len(NumberFragment),
                                   Append(acc, Atom("digit", "", TRUE)), FALSE)
                    ELSE IF HasPrefixAt(s, p, StringFragment)
                    THEN ParseFrom(s, p + Len(StringFragment),
                                   Append(acc, Atom("alpha", "", TRUE)), FALSE)
                    ELSE [ok |-> FALSE, atoms |-> <<>>]
               [] OTHER ->
                    ParseFrom(s, p + 1, Append(acc, Atom("lit", c, FALSE)), FALSE)

\* `^` + path + `$`
Anchored(p) == <<"^">> \o p \o <<"$">>

\* regexp.MustCompile(`^` + path + `$`): ok = FALSE is the panic
MustCompile(p) == ParseFrom(Anchored(p), 1, <<>>, FALSE)

Fits(a, c) ==
    CASE a.kind = "lit"   -> c = a.ch
      [] a.kind = "digit" -> c \in Digits
      [] a.kind = "alpha" -> c \in LowerLetters \cup UpperLetters
      [] OTHER            -> FALSE

\* whether atoms[k..] match s from position p on
RECURSIVE MatchFrom(_, _, _, _)
MatchFrom(atoms, k, s, p) ==
    IF k > Len(atoms) THEN TRUE
    ELSE LET a == atoms[k]
         IN  CASE a.kind = "bol" -> p = 1 /\ MatchFrom(atoms, k + 1, s, p)
               [] a.kind = "eol" -> p = Len(s) + 1 /\ MatchFrom(atoms, k + 1, s, p)
               [] OTHER ->
                    /\ p <= Len(s)
                    /\ Fits(a, s[p])
                    /\ \/ MatchFrom(atoms, k + 1, s, p + 1)
                       \/ a.plus /\ MatchFrom(atoms, k, s, p + 1)

\* Regexp.MatchString: some match of the pattern anywhere in s
MatchString(atoms, s) == \E p \in 1..(Len(s) + 1) : MatchFrom(atoms, 1, s, p)

NoRegex == <<>>

---------------------------------------------------------------------------
(* The scan of newPathWithVarsMatcher, one loop iteration per step.        *)

\* the parts of the state an execution does not use stay at these values
NoScan ==
    /\ i = 0
    /\ vars = ZeroVariable
    /\ ev = "start"
    /\ ext = NoExt
    /\ rem = 0
    /\ nsub = 0
    /\ scanned = "none"

NoRequest == regex = NoRegex /\ req = <<>> /\ result = FALSE

NoScheme == schemes = <<>> /\ sm = {}

NoMatchers == orig = <<>> /\ ms = <<>>

ScanInit ==
    /\ tmpl \in Templates
    /\ path = tmpl
    /\ i = 0
    /\ vars = ZeroVariable
    /\ pc = "scan"
    /\ ev = "start"
    /\ ext = NoExt
    /\ rem = Len(tmpl)
    /\ nsub = 0
    /\ scanned = "none"
    /\ NoRequest
    /\ NoScheme
    /\ NoMatchers

\* History only: the iteration scans a character of the original template
\* for the first time when i has reached the not-yet-scanned remainder, which
\* is the last rem characters of path; otherwise i is still on the text a
\* substitution inserted (or on the '/' that ended the token, scanned before).
ScansOriginal == i >= Len(path) - rem

\* lines 122-141: one iteration, then i++
Iterate ==
    /\ pc = "scan"
    /\ InLoop(path, i)
    /\ LET r == ScanIter(path, i, vars)
       IN  /\ path' = r.path
           /\ vars' = r.vars
           /\ ev' = r.ev
           /\ ext' = r.ext
           /\ pc' = IF r.ev = "panic" THEN "panic" ELSE "scan"
           /\ nsub' = IF r.ev \in SubstEvents THEN nsub + 1 ELSE nsub
    /\ rem' = IF ScansOriginal THEN rem - 1 ELSE rem
    /\ scanned' = IF ScansOriginal THEN "template" ELSE "fragment"
    /\ i' = NextIndex(i)
    /\ UNCHANGED <<tmpl, regex, req, result, schemes, sm, orig, ms>>

\* lines 144-146: the loop is over, the pattern is compiled
Compile ==
    /\ pc = "scan"
    /\ ~InLoop(path, i)
    /\ LET c == MustCompile(path)
       IN  /\ pc' = IF c.ok THEN "done" ELSE "panic"
           /\ regex' = c.atoms
    /\ ev' = "compile"
    /\ scanned' = "none"
    /\ UNCHANGED <<tmpl, path, i, vars, ext, rem, nsub, req, result,
                   schemes, sm, orig, ms>>

ScanNext == Iterate \/ Compile

Spec == ScanInit /\ [][ScanNext]_allVars

\* The loop runs on the goroutine that called the constructor, which is not
\* suspended: an enabled iteration is eventually taken.
FairSpec == ScanInit /\ [][ScanNext]_allVars /\ WF_allVars(ScanNext)

---------------------------------------------------------------------------
(* pathWithVarsMatcher and pathMatcher: construction and Match.            *)

\* pathMatcher.Match: strings.Compare(string(m), r.URL.Path) == 0
PathMatcherMatch(m, p) == m = p

\* pathWithVarsMatcher.Match: m.regex.MatchString(r.URL.Path)
PathWithVarsMatcherMatch(re, p) == MatchString(re, p)

MatchInit ==
    /\ tmpl \in MatchTemplates
    /\ path = tmpl
    /\ pc = "new"
    /\ NoScan
    /\ NoRequest
    /\ NoScheme
    /\ NoMatchers

\* newPathWithVarsMatcher(tmpl) as one step: the scan, then MustCompile
NewPathWithVarsMatcher ==
    /\ pc = "new"
    /\ LET r == RunScan(tmpl, 0, ZeroVariable)
           c == MustCompile(r.path)
       IN  /\ path' = r.path
           /\ regex' = c.atoms
           /\ pc' = IF r.ok /\ c.ok THEN "ready" ELSE "panic"
    /\ UNCHANGED <<tmpl, i, vars, ev, ext, rem, nsub, scanned, req, result,
                   schemes, sm, orig, ms>>

\* Match on a request whose URL path is p
MatchPath(p) ==
    /\ pc = "ready"
    /\ req' = p
    /\ result' = PathWithVarsMatcherMatch(regex, p)
    /\ pc' = "matched"
    /\ UNCHANGED <<tmpl, path, i, vars, ev, ext, rem, nsub, scanned, regex,
                   schemes, sm, orig, ms>>

MatchNext ==
    \/ NewPathWithVarsMatcher
    \/ \E p \in Requests : MatchPath(p)

MatchSpec == MatchInit /\ [][MatchNext]_allVars

---------------------------------------------------------------------------
(* schemeMatcher.                                                          *)

UpperSeq ==
    <<"A", "B", "C", "D", "E", "F", "G", "H", "I", "J", "K", "L", "M",
      "N", "O", "P", "Q", "R", "S", "T", "U", "V", "W", "X", "Y", "Z">>

LowerSeq ==
    <<"a", "b", "c", "d", "e", "f", "g", "h", "i", "j", "k", "l", "m",
      "n", "o", "p", "q", "r", "s", "t", "u", "v", "w", "x", "y", "z">>

\* (variant: the configured scheme is stored as given)
ToLowerNone(s) == s

\* strings.ToLower on the letters of ASCII
ToLower(s) ==
    [k \in 1..Len(s) |->
        IF s[k] \in UpperLetters
        THEN LowerSeq[CHOOSE n \in 1..Len(UpperSeq) : UpperSeq[n] = s[k]]
        ELSE s[k]]

\* the scheme strings of the model, as arguments and as request schemes
SchemeStrings ==
    { <<>>,
      <<"h", "t", "t", "p">>, <<"H", "T", "T", "P">>, <<"H", "t", "t", "p">>,
      <<"h", "t", "t", "p", "s">>, <<"H", "T", "T", "P", "S">>,
      <<"h", "t", "t", "p", "S">> }

RECURSIVE Lists(_, _)
Lists(S, n) ==
    IF n = 0 THEN { <<>> }
    ELSE LET L == Lists(S, n - 1)
         IN  L \cup { Append(l, x) : l \in L, x \in S }

\* newSchemeMatcher(schemes...): the key set of the map it builds
NewSchemeMatcherMap(list) == { ToLower(list[k]) : k \in DOMAIN list }

\* schemeMatcher.Match: _, found := m[r.URL.Scheme]
SchemeMatcherMatch(m, scheme) == scheme \in m

SchemeInit ==
    /\ schemes \in Lists(SchemeStrings, MaxSchemes)
    /\ sm = {}
    /\ pc = "new"
    /\ tmpl = <<>>
    /\ path = <<>>
    /\ NoScan
    /\ NoRequest
    /\ NoMatchers

NewSchemeMatcher ==
    /\ pc = "new"
    /\ sm' = NewSchemeMatcherMap(schemes)
    /\ pc' = "ready"
    /\ UNCHANGED <<tmpl, path, i, vars, ev, ext, rem, nsub, scanned, regex, req,
                   result, schemes, orig, ms>>

MatchScheme(s) ==
    /\ pc = "ready"
    /\ req' = s
    /\ result' = SchemeMatcherMatch(sm, s)
    /\ pc' = "matched"
    /\ UNCHANGED <<tmpl, path, i, vars, ev, ext, rem, nsub, scanned, regex,
                   schemes, sm, orig, ms>>

SchemeNext ==
    \/ NewSchemeMatcher
    \/ \E s \in SchemeStrings : MatchScheme(s)

SchemeSpec == SchemeInit /\ [][SchemeNext]_allVars

---------------------------------------------------------------------------
(* Rank and the Matchers collection.                                       *)

rankAny == 0

rankPath == 1

rankScheme == 2

\* the types that implement Matcher
MatcherKinds ==
    { "headerMatcher", "headerRegexMatcher", "MatcherFunc", "schemeMatcher",
      "pathMatcher", "pathWithVarsMatcher", "pathRegexMatcher" }

\* (variant: schemeMatcher.Rank returns rankAny)
RankSchemeAsAny(kind) ==
    IF kind \in { "pathMatcher", "pathWithVarsMatcher", "pathRegexMatcher" }
    THEN rankPath
    ELSE rankAny

\* the Rank method of each type
Rank(kind) ==
    CASE kind = "headerMatcher"       -> rankAny
      [] kind = "headerRegexMatcher"  -> rankAny
      [] kind = "MatcherFunc"         -> rankAny
      [] kind = "schemeMatcher"       -> rankScheme
      [] kind = "pathMatcher"         -> rankPath
      [] kind = "pathWithVarsMatcher" -> rankPath
      [] kind = "pathRegexMatcher"    -> rankPath

\* Matchers.Len, Matchers.Less and Matchers.Swap, on Go's indices 0..len-1
MatchersLen(m) == Len(m)

MatchersLess(m, a, b) == Rank(m[a + 1]) < Rank(m[b + 1])

MatchersSwap(m, a, b) == [m EXCEPT ![a + 1] = m[b + 1], ![b + 1] = m[a + 1]]

SortInit ==
    /\ orig \in Lists(MatcherKinds, MaxMatchers)
    /\ ms = orig
    /\ pc = "sorting"
    /\ tmpl = <<>>
    /\ path = <<>>
    /\ NoScan
    /\ NoRequest
    /\ NoScheme

\* A step of a sort that works through Len, Less and Swap alone: it exchanges
\* two elements that Less finds out of order.
SortExchange(a, b) ==
    /\ pc = "sorting"
    /\ a < b
    /\ MatchersLess(ms, b, a)
    /\ ms' = MatchersSwap(ms, a, b)
    /\ UNCHANGED <<tmpl, path, i, vars, pc, ev, ext, rem, nsub, scanned, regex,
                   req, result, schemes, sm, orig>>

\* The sort returns once Less finds no two elements out of order.
SortReturn ==
    /\ pc = "sorting"
    /\ \A a, b \in 0..(MatchersLen(ms) - 1) : a < b => ~MatchersLess(ms, b, a)
    /\ pc' = "sorted"
    /\ UNCHANGED <<tmpl, path, i, vars, ev, ext, rem, nsub, scanned, regex,
                   req, result, schemes, sm, orig, ms>>

SortNext ==
    \/ \E a, b \in 0..(MatchersLen(ms) - 1) : SortExchange(a, b)
    \/ SortReturn

SortSpec == SortInit /\ [][SortNext]_allVars

---------------------------------------------------------------------------
(* Properties of the scan.                                                 *)

Fragment(e) == IF e = "number" THEN NumberFragment ELSE StringFragment

Keyword(e) == IF e = "number" THEN NumberKeyword ELSE StringKeyword

RECURSIVE CountChar(_, _)
CountChar(c, s) ==
    IF s = <<>> THEN 0
    ELSE (IF Head(s) = c THEN 1 ELSE 0) + CountChar(c, Tail(s))

\* A keyword that the scan replaces, stated on the positions of the original
\* template (1-based position p): it does not start the template, and it ends
\* the template or is followed by a '/' that is not the template's last
\* character.
ReplacedAt(t, p, kw) ==
    /\ p > 1
    /\ HasPrefixAt(t, p, kw)
    /\ \/ p + Len(kw) > Len(t)
       \/ t[p + Len(kw)] = "/" /\ p + Len(kw) < Len(t)

\* Every such keyword replaced by its fragment, each on its own, the rest kept.
RECURSIVE Expand(_, _)
Expand(t, p) ==
    IF p > Len(t) THEN <<>>
    ELSE IF ReplacedAt(t, p, NumberKeyword)
    THEN NumberFragment \o Expand(t, p + Len(NumberKeyword))
    ELSE IF ReplacedAt(t, p, StringKeyword)
    THEN StringFragment \o Expand(t, p + Len(StringKeyword))
    ELSE <<t[p]>> \o Expand(t, p + 1)

\* C5 as stated: after a token that is neither keyword was extracted, the scan
\* state is reset to unset and the template text is unmodified.
C5_ResetAfterOtherToken ==
    ev = "other" => vars = ZeroVariable /\ path = ext.before

\* C5 as amended: after a token that is neither keyword was extracted, the
\* template text is unmodified, and the scan state is kept, not reset: the
\* start index still points at the ':' the token started at and the end index
\* holds the recorded end.
C5_KeptAfterOtherToken ==
    ev = "other" =>
        /\ path = ext.before
        /\ vars.firstIndex = ext.first
        /\ vars.lastIndex = ext.last
        /\ vars.firstIndex # 0
        /\ path[vars.firstIndex + 1] = ":"
        /\ ext.seg[1] = ":"

C5_Witness ==
    /\ ev = "other"
    /\ ext.seg = <<":", "a">>
    /\ i < Len(path)

\* C6: a substitution replaces exactly the span [first, last) of the scanned
\* token and keeps the text on both sides; the scan never passes over a
\* character of the template it has not scanned; while it is on the text of
\* an inserted fragment it records no start and extracts no token; and the
\* pattern handed to the compiler is the template with each replaceable
\* keyword replaced on its own.
C6_SubstitutionFrame ==
    /\ ev \in SubstEvents =>
          LET b == ext.before
              f == Fragment(ev)
          IN  /\ Slice(b, ext.first, ext.last) = Keyword(ev)
              /\ Slice(path, 0, ext.first) = Slice(b, 0, ext.first)
              /\ Slice(path, ext.first, ext.first + Len(f)) = f
              /\ Slice(path, ext.first + Len(f), Len(path)) =
                     Slice(b, ext.last, Len(b))
    /\ rem >= 0
    /\ i + rem <= Len(path)
    /\ Slice(path, Len(path) - rem, Len(path)) =
           Slice(tmpl, Len(tmpl) - rem, Len(tmpl))
    /\ scanned = "fragment" => ev = "plain"
    /\ pc = "scan" /\ ~InLoop(path, i) => rem = 0
    /\ pc = "done" => path = Expand(tmpl, 1)

C6_Witness ==
    /\ pc = "done"
    /\ nsub = 2
    /\ path = <<"/">> \o NumberFragment \o <<"/">> \o StringFragment

\* C7: when the end is recorded at the last index of the path, it is advanced
\* by one and the token runs from the ':' through the last character; with a
\* '/' as last character the token is no keyword and nothing is substituted.
C7_EndOfStringToken ==
    ev \in TokenEvents =>
        LET b == ext.before
        IN  /\ ext.at = Len(b) - 1 =>
                  /\ ext.last = Len(b)
                  /\ ext.seg = Slice(b, ext.first, Len(b))
                  /\ ext.seg[1] = ":"
                  /\ ext.seg[Len(ext.seg)] = b[Len(b)]
            /\ ext.at = Len(b) - 1 /\ b[Len(b)] = "/" =>
                  ev = "other" /\ path = b
            /\ tmpl = <<"/", "a", "/">> \o NumberKeyword =>
                  ext.seg = NumberKeyword /\ ev = "number"
            /\ tmpl = <<"/", "a", "/">> \o NumberKeyword \o <<"/">> =>
                  ext.seg = NumberKeyword \o <<"/">> /\ ev = "other"

C7_Witness ==
    /\ ev = "other"
    /\ tmpl = <<"/", "a", "/">> \o NumberKeyword \o <<"/">>
    /\ ext.seg = NumberKeyword \o <<"/">>
    /\ ext.last = Len(path)

\* C8: the scan loop terminates for every template, and the number of
\* substitutions never exceeds the number of ':' in the template.
C8_ScanTerminates ==
    /\ <>(pc # "scan")
    /\ [](nsub <= CountChar(":", tmpl))
    /\ [](i <= Len(path))

C8_Witness ==
    /\ pc = "done"
    /\ nsub = 2
    /\ nsub = CountChar(":", tmpl)
    /\ Len(path) > Len(tmpl)

\* C9: no slice expression of the scan goes out of range: whenever a token is
\* extracted, 0 < firstIndex < lastIndex <= len(path).
C9_IndicesInRange ==
    /\ ev # "panic"
    /\ ev \in TokenEvents =>
          /\ 0 < ext.first
          /\ ext.first < ext.last
          /\ ext.last <= Len(ext.before)

C9_Witness ==
    /\ ev \in TokenEvents
    /\ ext.last = Len(ext.before)
    /\ ext.first = 1

\* C10: a ':' at index 0 starts no placeholder: no token is extracted with
\* start index 0, a keyword at the start of the template stays in the path as
\* it is and is compiled as literal characters, and the same keyword at index
\* 1 is substituted.
KeywordAtStart(t, kw) ==
    /\ HasPrefixAt(t, 1, kw)
    /\ Len(t) = Len(kw) \/ t[Len(kw) + 1] = "/"

C10_ColonAtIndexZero ==
    /\ ev \in TokenEvents => ext.first # 0
    /\ \A kw \in { NumberKeyword, StringKeyword } :
          KeywordAtStart(tmpl, kw) =>
             /\ HasPrefixAt(path, 1, kw)
             /\ pc = "done" =>
                   \A k \in 1..Len(kw) : regex[k + 1] = Atom("lit", kw[k], FALSE)
    /\ pc = "done" /\ tmpl = <<"/">> \o NumberKeyword =>
          path = <<"/">> \o NumberFragment
    /\ pc = "done" /\ tmpl = <<"/">> \o StringKeyword =>
          path = <<"/">> \o StringFragment

C10_Witness ==
    /\ pc = "done"
    /\ tmpl = StringKeyword \o <<"/", "a">>
    /\ path = tmpl
    /\ nsub = 0

---------------------------------------------------------------------------
(* Properties of the path matchers.                                        *)

\* A keyword token as C1 words it: it starts at a ':' and ends at the next '/'
\* or at the end of the template.
TokenAt(t, p, kw) ==
    /\ HasPrefixAt(t, p, kw)
    /\ p + Len(kw) > Len(t) \/ t[p + Len(kw)] = "/"

\* the template with every keyword token replaced by its fragment
RECURSIVE ReplaceTokens(_, _)
ReplaceTokens(t, p) ==
    IF p > Len(t) THEN <<>>
    ELSE IF TokenAt(t, p, NumberKeyword)
    THEN NumberFragment \o ReplaceTokens(t, p + Len(NumberKeyword))
    ELSE IF TokenAt(t, p, StringKeyword)
    THEN StringFragment \o ReplaceTokens(t, p + Len(StringKeyword))
    ELSE <<t[p]>> \o ReplaceTokens(t, p + 1)

\* r from position q on equals t from position p on, with one or more digits
\* (letters) where t has a :number (:string) token
RECURSIVE EqualsWithTokens(_, _, _, _)
EqualsWithTokens(t, p, r, q) ==
    IF p > Len(t) THEN q > Len(r)
    ELSE IF TokenAt(t, p, NumberKeyword)
    THEN \E n \in 1..(Len(r) - q + 1) :
            /\ \A k \in q..(q + n - 1) : r[k] \in Digits
            /\ EqualsWithTokens(t, p + Len(NumberKeyword), r, q + n)
    ELSE IF TokenAt(t, p, StringKeyword)
    THEN \E n \in 1..(Len(r) - q + 1) :
            /\ \A k \in q..(q + n - 1) : r[k] \in LowerLetters \cup UpperLetters
            /\ EqualsWithTokens(t, p + Len(StringKeyword), r, q + n)
    ELSE /\ q <= Len(r)
         /\ r[q] = t[p]
         /\ EqualsWithTokens(t, p + 1, r, q + 1)

\* C1: every :number / :string token of the template is replaced by its
\* fragment and all other text is kept, and the matcher accepts a request path
\* iff it equals the template with one or more digits (letters) at every
\* token.
C1_TokensReplacedAndMatched ==
    /\ pc \in { "ready", "matched" } => path = ReplaceTokens(tmpl, 1)
    /\ pc = "matched" => (result <=> EqualsWithTokens(tmpl, 1, req, 1))

IsStrictPrefix(a, b) == Len(a) < Len(b) /\ SubSeq(b, 1, Len(a)) = a

IsStrictSuffix(a, b) ==
    Len(a) < Len(b) /\ SubSeq(b, Len(b) - Len(a) + 1, Len(b)) = a

\* C2: for a template without placeholder the matcher agrees with the literal
\* pathMatcher on the request path equal to the template (both accept), and
\* rejects every strict prefix, strict suffix and strict extension of it.
C2_LiteralTemplateLikePathMatcher ==
    pc = "matched" /\ CountChar(":", tmpl) = 0 =>
        /\ req = tmpl => result /\ result = PathMatcherMatch(tmpl, req)
        /\ IsStrictPrefix(req, tmpl) => ~result
        /\ IsStrictSuffix(req, tmpl) => ~result
        /\ IsStrictPrefix(tmpl, req) => ~result

---------------------------------------------------------------------------
(* Properties of the scheme matcher.                                       *)

\* c is the lower-case form of d
IsLowerCaseOf(c, d) ==
    \/ d \notin UpperLetters /\ c = d
    \/ \E n \in 1..Len(UpperSeq) : d = UpperSeq[n] /\ c = LowerSeq[n]

\* s equals, character for character, the lower-cased form of v
IsLowerCasedForm(s, v) ==
    /\ Len(s) = Len(v)
    /\ \A k \in 1..Len(v) : IsLowerCaseOf(s[k], v[k])

\* C4: Match returns true iff the request scheme equals, character for
\* character, the lower-cased form of a configured scheme; the request scheme
\* is compared as it is.
C4_SchemeMatch ==
    pc = "matched" =>
        /\ result <=> \E k \in DOMAIN schemes : IsLowerCasedForm(req, schemes[k])
        /\ (\E k \in 1..Len(req) : req[k] \in UpperLetters) => ~result
        /\ schemes = << <<"H", "T", "T", "P">> >> =>
              (result <=> req = <<"h", "t", "t", "p">>)

C4_Witness ==
    /\ pc = "matched"
    /\ schemes = << <<"H", "T", "T", "P">> >>
    /\ req = <<"h", "t", "t", "p">>
    /\ result

---------------------------------------------------------------------------
(* Properties of the Matchers collection.                                  *)

\* the priority class C3 gives each type
ClassOf(kind) ==
    IF kind \in { "headerMatcher", "headerRegexMatcher", "MatcherFunc" } THEN "any"
    ELSE IF kind = "schemeMatcher" THEN "scheme"
    ELSE "path"

\* any < path < scheme
ClassBefore(x, y) ==
    <<x, y>> \in { <<"any", "path">>, <<"any", "scheme">>, <<"path", "scheme">> }

Occurrences(m, kind) == Cardinality({ k \in DOMAIN m : m[k] = kind })

IsPermutation(m, n) ==
    /\ Len(m) = Len(n)
    /\ \A kind \in MatcherKinds : Occurrences(m, kind) = Occurrences(n, kind)

\* C3: Less(i, j) is true iff the class of element i is before the class of
\* element j in any < path < scheme; the collection stays a permutation of the
\* original; and once sorted, every "any" matcher precedes every path matcher
\* and every path matcher precedes every scheme matcher.
C3_LessAndSortedOrder ==
    /\ \A a, b \in 0..(MatchersLen(ms) - 1) :
          MatchersLess(ms, a, b) <=> ClassBefore(ClassOf(ms[a + 1]), ClassOf(ms[b + 1]))
    /\ MatchersLen(ms) = Len(ms)
    /\ IsPermutation(ms, orig)
    /\ pc = "sorted" =>
          /\ \A a, b \in 1..Len(ms) :
                a < b => ~ClassBefore(ClassOf(ms[b]), ClassOf(ms[a]))
          /\ orig = <<"schemeMatcher", "MatcherFunc", "pathMatcher">> =>
                ms = <<"MatcherFunc", "pathMatcher", "schemeMatcher">>

C3_Witness ==
    /\ pc = "sorted"
    /\ orig = <<"schemeMatcher", "MatcherFunc", "pathMatcher">>
    /\ ms = <<"MatcherFunc", "pathMatcher", "schemeMatcher">>

=============================================================================
